---- MODULE Spec2Model ----
(***************************************************************************)
(* Model of the two Dune client scripts of the repository:                 *)
(*                                                                         *)
(*   scripts/pull_from_dune.py   main -> process_query -> execute_query,   *)
(*                               wait_for_completion, get_results,         *)
(*                               save_results                              *)
(*   scripts/check_addresses.py  process_csv -> execute_dune_query         *)
(*                                                                         *)
(* One step of the model is one HTTP request together with the code that   *)
(* handles its response, or one block of straight-line code between two    *)
(* requests.  The remote service is the environment: every request draws   *)
(* its response from the set of responses the service can give.            *)
(***************************************************************************)
EXTENDS Integers, Sequences, FiniteSets, TLC

\* ------------------------------------------------------------------------
\* Bounds of the model
\* ------------------------------------------------------------------------
MaxRows == 2
MaxQueries == 2
MaxResultRows == 2

\* ------------------------------------------------------------------------
\* Program constants
\* ------------------------------------------------------------------------
WaitMaxAttempts == 30
WaitDelay == 5
PollMaxAttempts == 30
PollDelayCap == 60
AddrHexLen == 40
AddrFullLen == 42
HttpOk == 200
HttpErrorFloor == 400

\* Constants of the retry policy, which the scripts do not implement
MAX_RETRIES == 3
MAX_DELAY == 60
MAX_JITTER == 5

QUERY_STATE_PENDING == "QUERY_STATE_PENDING"
QUERY_STATE_EXECUTING == "QUERY_STATE_EXECUTING"
QUERY_STATE_RUNNING == "QUERY_STATE_RUNNING"
QUERY_STATE_COMPLETED == "QUERY_STATE_COMPLETED"
QUERY_STATE_FAILED == "QUERY_STATE_FAILED"
QUERY_STATE_CANCELLED == "QUERY_STATE_CANCELLED"
QUERY_STATE_CANCELED == "QUERY_STATE_CANCELED"

\* the value of a missing JSON key (dict.get returns None)
None == "None"

\* ------------------------------------------------------------------------
\* Strings: an address is a sequence of one-character strings
\* ------------------------------------------------------------------------
UpperCase == <<"A", "B", "C", "D", "E", "F", "X">>
LowerCase == <<"a", "b", "c", "d", "e", "f", "x">>

\* str.lower on one character
LowerChar(c) ==
    IF \E i \in 1..Len(UpperCase) : UpperCase[i] = c
    THEN LowerCase[CHOOSE i \in 1..Len(UpperCase) : UpperCase[i] = c]
    ELSE c

\* str.lower
Lower(s) == [i \in 1..Len(s) |-> LowerChar(s[i])]

\* s.lower().startswith('0x')
StartsWith0x(s) ==
    /\ Len(s) >= 2
    /\ Lower(s)[1] = "0"
    /\ Lower(s)[2] = "x"

\* the characters of '0123456789abcdefABCDEF'
HexChars ==
    {"0", "1", "2", "3", "4", "5", "6", "7", "8", "9",
     "a", "b", "c", "d", "e", "f", "A", "B", "C", "D", "E", "F"}

\* all(c in '0123456789abcdefABCDEF' for c in s)
AllHex(s) == \A i \in 1..Len(s) : s[i] \in HexChars

WhiteSpace == {" "}

\* str.strip
RECURSIVE LStrip(_)
LStrip(s) ==
    IF s # <<>> /\ Head(s) \in WhiteSpace THEN LStrip(Tail(s)) ELSE s

RECURSIVE RStrip(_)
RStrip(s) ==
    IF s # <<>> /\ s[Len(s)] \in WhiteSpace
    THEN RStrip(SubSeq(s, 1, Len(s) - 1))
    ELSE s

Strip(s) == RStrip(LStrip(s))

\* s[2:]
Drop2(s) == SubSeq(s, 3, Len(s))

Min(a, b) == IF a <= b THEN a ELSE b

RECURSIVE Pow2(_)
Pow2(n) == IF n = 0 THEN 1 ELSE 2 * Pow2(n - 1)


\* ------------------------------------------------------------------------
\* Inputs: the address_hex column of the CSV file, the list of query ids
\* ------------------------------------------------------------------------
HexPattern == <<"1", "a", "F", "9">>

\* n characters, all hexadecimal digits except a "g" at position bad
AddressBody(n, bad) ==
    [i \in 1..n |-> IF i = bad THEN "g" ELSE HexPattern[(i % 4) + 1]]

Address(pad, prefix, n, bad) ==
    IF pad
    THEN <<" ">> \o prefix \o AddressBody(n, bad) \o <<" ">>
    ELSE prefix \o AddressBody(n, bad)

NoPrefix == <<>>
Prefix0x == <<"0", "x">>
Prefix0X == <<"0", "X">>

\* well-formed addresses, with and without the 0x prefix
GoodAddresses ==
    { Address(FALSE, Prefix0x, AddrHexLen, 0),
      Address(FALSE, NoPrefix, AddrHexLen, 0),
      Address(FALSE, Prefix0X, AddrHexLen, 0),
      Address(TRUE, Prefix0x, AddrHexLen, 0) }

\* addresses of the wrong length, all of their characters hexadecimal
WrongLengthAddresses ==
    { Address(FALSE, Prefix0x, AddrHexLen - 1, 0),
      Address(FALSE, NoPrefix, AddrFullLen, 0),
      Address(FALSE, Prefix0x, 0, 0) }

\* addresses with a character that is no hexadecimal digit
NonHexAddresses ==
    { Address(FALSE, Prefix0x, AddrHexLen, AddrHexLen),
      Address(FALSE, NoPrefix, AddrHexLen, 1),
      Address(FALSE, Prefix0x, AddrHexLen - 1, 5) }

\* an empty cell and a cell of blanks
BlankAddresses ==
    { Address(FALSE, NoPrefix, 0, 0),
      Address(TRUE, NoPrefix, 0, 0) }

AddressInputs ==
    GoodAddresses \cup WrongLengthAddresses \cup NonHexAddresses
        \cup BlankAddresses

CsvInputs ==
    UNION { [1..n -> AddressInputs] : n \in 0..MaxRows }

QueryIdInputs ==
    { [i \in 1..n |-> i] : n \in 0..MaxQueries }

\* ------------------------------------------------------------------------
\* The remote service: HTTP responses
\* ------------------------------------------------------------------------
\* a JSON body of the results endpoint; other: it has keys besides "result"
EmptyBody ==
    [other |-> FALSE, has_result |-> FALSE, has_rows |-> FALSE, rows |-> <<>>]

RowSeqs == { [i \in 1..n |-> "row"] : n \in 0..MaxResultRows }

ResultBodies ==
    { EmptyBody,
      [other |-> TRUE, has_result |-> FALSE, has_rows |-> FALSE, rows |-> <<>>],
      [other |-> TRUE, has_result |-> TRUE, has_rows |-> FALSE, rows |-> <<>>] }
    \cup
    { [other |-> TRUE, has_result |-> TRUE, has_rows |-> TRUE, rows |-> r] :
        r \in RowSeqs }

ErrorCodes == {400, 429, 500}
RetryAfterValues == {1, 90}

NoResponse ==
    [kind |-> "none", code |-> 0, retry_after |-> 0, execution_id |-> None,
     state |-> None, body |-> EmptyBody]

\* requests raised an exception (connection error, timeout)
NetworkError ==
    [kind |-> "exception", code |-> 0, retry_after |-> 0, execution_id |-> None,
     state |-> None, body |-> EmptyBody]

HttpError(code, retry_after) ==
    [kind |-> "http", code |-> code, retry_after |-> retry_after,
     execution_id |-> None, state |-> None, body |-> EmptyBody]

ErrorResponses ==
    {NetworkError}
    \cup { HttpError(c, 0) : c \in ErrorCodes \ {429} }
    \cup { HttpError(429, ra) : ra \in RetryAfterValues }

SubmitResponses ==
    ErrorResponses \cup
    { [kind |-> "http", code |-> HttpOk, retry_after |-> 0, execution_id |-> e,
       state |-> s, body |-> EmptyBody] :
        e \in {None, "01EXEC"},
        s \in {None, QUERY_STATE_PENDING, QUERY_STATE_FAILED} }

\* the state strings of the status endpoint
SpecStates ==
    {QUERY_STATE_PENDING, QUERY_STATE_RUNNING, QUERY_STATE_COMPLETED,
     QUERY_STATE_FAILED, QUERY_STATE_CANCELLED}

\* further strings a status response may carry, and a missing "state" key
OtherStates == {QUERY_STATE_EXECUTING, QUERY_STATE_CANCELED, None}

StatusResponses ==
    ErrorResponses \cup
    { [kind |-> "http", code |-> HttpOk, retry_after |-> 0,
       execution_id |-> "01EXEC", state |-> s, body |-> EmptyBody] :
        s \in SpecStates \cup OtherStates }

ResultsResponses ==
    ErrorResponses \cup
    { [kind |-> "http", code |-> HttpOk, retry_after |-> 0,
       execution_id |-> "01EXEC", state |-> None, body |-> b] :
        b \in ResultBodies }

\* a request without its raise_for_status: only exceptions of the
\* connection count as failures
RequestFailedNoRaise(r) == r.kind = "exception"

\* response.raise_for_status() raises
RaisesForStatus(r) == r.code >= HttpErrorFloor

\* the request raised requests.exceptions.RequestException
RequestFailed(r) == r.kind = "exception" \/ RaisesForStatus(r)

\* results.get('result', {}).get('rows', [])
ResultRows(body) ==
    IF body.has_result /\ body.has_rows THEN body.rows ELSE <<>>

\* bool(x) of a dict
Truthy(body) == body.other \/ body.has_result

\* ------------------------------------------------------------------------
\* State
\* ------------------------------------------------------------------------
VARIABLES
    script,         \* the entry point that runs
    pc,             \* position of the control flow
    query_ids,      \* pull_from_dune: the ids read from queries.yml
    qi,             \* pull_from_dune.main: position in query_ids
    completion,     \* process_query: what wait_for_completion returned
    saved,          \* save_results: positions whose results file was written
    rows,           \* process_csv: the address_hex column of the input file
    address_hex,    \* process_csv: the stripped cell; execute_dune_query: its argument
    has_results,    \* what execute_dune_query returned
    results_url,    \* execute_dune_query: the local of line 185
    is_verified,    \* process_csv: the verdicts written, per input row
    execution_id,   \* the execution id of the current item
    attempt,        \* the loop counter of the poll loop
    state,          \* the state string of the last status response
    results,        \* the decoded results of the current item
    response,       \* the last HTTP response received
    wait_time,      \* seconds slept since the last response
    nSubmit,        \* requests of the current item to /query/{id}/execute
    nStatus,        \* requests of the current item to /execution/{id}/status
    nResults,       \* requests of the current item to /execution/{id}/results
    nPending,       \* status responses of the current item saying PENDING or RUNNING
    nTransient,     \* the last responses that were transient failures, in a row
    submitted       \* pull_from_dune: the positions submitted so far, in order

vars ==
    <<script, pc, query_ids, qi, completion, saved, rows, address_hex,
      has_results, results_url, is_verified, execution_id, attempt, state,
      results, response, wait_time, nSubmit, nStatus, nResults, nPending,
      nTransient, submitted>>

pullVars == <<query_ids, qi, completion, saved>>
csvVars == <<rows, address_hex, has_results, results_url, is_verified>>
jobVars == <<execution_id, attempt, state, results>>
netVars ==
    <<response, wait_time, nSubmit, nStatus, nResults, nPending, nTransient>>

\* the states in which the remote execution is still under way
StillRunning(s) == s \in {QUERY_STATE_PENDING, QUERY_STATE_RUNNING}

\* nPending after a status response of state s
CountPending(s) == IF StillRunning(s) THEN nPending + 1 ELSE nPending

\* a network error or a 5xx response
Transient(r) == r.kind = "exception" \/ r.code >= 500

\* nTransient after the response r
CountTransient(r) == IF Transient(r) THEN nTransient + 1 ELSE 0

NoResults == [kind |-> "none", body |-> EmptyBody]
ErrorResults == [kind |-> "error", body |-> EmptyBody]
JsonResults(body) == [kind |-> "json", body |-> body]

\* wait_for_completion reporting a timeout with the message of a failure
TimedOutAsFailed == "Query execution query_state_failed"

\* the values wait_for_completion returns
Completed == "completed"
StatusError == "Error getting status for execution"
TimedOut == "Query execution timed out"
ExecutionFailed(s) ==
    IF s = QUERY_STATE_FAILED
    THEN "Query execution query_state_failed"
    ELSE "Query execution query_state_cancelled"

InitCommon ==
    /\ completion = None
    /\ saved = {}
    /\ has_results = None
    /\ results_url = "unbound"
    /\ execution_id = None
    /\ attempt = 0
    /\ state = None
    /\ results = NoResults
    /\ response = NoResponse
    /\ wait_time = 0
    /\ nSubmit = 0
    /\ nStatus = 0
    /\ nResults = 0
    /\ nPending = 0
    /\ nTransient = 0
    /\ submitted = <<>>

\* python pull_from_dune.py
InitPull ==
    /\ script = "pull_from_dune"
    /\ pc = "main"
    /\ query_ids \in QueryIdInputs
    /\ qi = 1
    /\ rows = <<>>
    /\ address_hex = <<>>
    /\ is_verified = <<>>

\* python check_addresses.py
InitCsv ==
    /\ script = "check_addresses"
    /\ pc = "process_csv"
    /\ query_ids = <<>>
    /\ qi = 0
    /\ rows \in CsvInputs
    /\ address_hex = <<>>
    /\ is_verified = [i \in 1..Len(rows) |-> <<>>]

\* a call of check_addresses.execute_dune_query(address_hex)
InitCall ==
    /\ script = "execute_dune_query"
    /\ pc = "edq_validate"
    /\ query_ids = <<>>
    /\ qi = 0
    /\ rows = <<>>
    /\ address_hex \in AddressInputs
    /\ is_verified = <<>>

Init == InitCommon /\ (InitPull \/ InitCsv \/ InitCall)

\* ------------------------------------------------------------------------
\* pull_from_dune.py
\* ------------------------------------------------------------------------
\* main: the next query id of the list is handed to process_query
MainNextQuery ==
    /\ pc = "main"
    /\ qi <= Len(query_ids)
    /\ pc' = "execute_query"
    /\ completion' = None
    /\ execution_id' = None
    /\ attempt' = 0
    /\ state' = None
    /\ results' = NoResults
    /\ response' = NoResponse
    /\ wait_time' = 0
    /\ nSubmit' = 0
    /\ nStatus' = 0
    /\ nResults' = 0
    /\ nPending' = 0
    /\ nTransient' = 0
    /\ UNCHANGED <<script, submitted, query_ids, qi, saved, csvVars>>

\* main: the list is exhausted
MainDone ==
    /\ pc = "main"
    /\ qi > Len(query_ids)
    /\ pc' = "done"
    /\ UNCHANGED <<script, submitted, pullVars, csvVars, jobVars, netVars>>

\* how the run of process_query that returns has ended
RunOutcome ==
    IF execution_id = None THEN "submission_error"
    ELSE IF completion = StatusError THEN "poll_failure"
    ELSE IF completion = TimedOut THEN "timed_out"
    ELSE IF completion # Completed THEN "failed"
    ELSE IF results.kind = "error" THEN "fetch_error"
    ELSE "fetched"

\* main stops at the first query that did not give results
ProcessQueryReturnStop ==
    /\ pc = "pq_return"
    /\ pc' = IF RunOutcome = "fetched" THEN "main" ELSE "done"
    /\ qi' = qi + 1
    /\ UNCHANGED <<script, submitted, query_ids, completion, saved, csvVars,
                   jobVars, netVars>>

\* process_query has returned to the loop of main
ProcessQueryReturn ==
    /\ pc = "pq_return"
    /\ pc' = "main"
    /\ qi' = qi + 1
    /\ UNCHANGED <<script, submitted, query_ids, completion, saved, csvVars,
                   jobVars, netVars>>

\* process_query without its check of lines 157-160
SubmitFailedNoIdCheck(r) == RequestFailed(r)

\* process_query: the checks of lines 153-160 on what execute_query returned
SubmitFailed(r) == RequestFailed(r) \/ r.execution_id = None

\* process_query submitting again when the request failed
AfterSubmitRetry(r) ==
    IF RequestFailed(r) THEN "execute_query"
    ELSE IF SubmitFailed(r) THEN "pq_return"
    ELSE "wait_for_completion"

\* process_query: where it goes after execute_query
AfterSubmit(r) ==
    IF SubmitFailed(r) THEN "pq_return" ELSE "wait_for_completion"

\* execute_query, and what process_query does with its result
ExecuteQuery ==
    /\ pc = "execute_query"
    /\ \E r \in SubmitResponses :
        /\ response' = r
        /\ nTransient' = CountTransient(r)
        /\ nSubmit' = nSubmit + 1
        /\ pc' = AfterSubmit(r)
        /\ IF SubmitFailed(r)
           THEN UNCHANGED <<execution_id, attempt>>
           ELSE /\ execution_id' = r.execution_id
                /\ attempt' = 1
    /\ submitted' = Append(submitted, qi)
    /\ wait_time' = 0
    /\ UNCHANGED <<script, pullVars, csvVars, state, results, nStatus,
                   nResults, nPending>>

\* wait_for_completion without its elif: a failed execution is polled again
WaitBranchNoFailure(s) ==
    IF s = QUERY_STATE_COMPLETED THEN "completed" ELSE "sleep"

\* wait_for_completion taking a failed execution for a completed one
WaitBranchFailedCompletes(s) ==
    IF s \in {QUERY_STATE_COMPLETED, QUERY_STATE_FAILED} THEN "completed"
    ELSE IF s = QUERY_STATE_CANCELLED THEN "failed"
    ELSE "sleep"

\* the if/elif of wait_for_completion on the state of a status response
WaitBranch(s) ==
    IF s = QUERY_STATE_COMPLETED THEN "completed"
    ELSE IF s \in {QUERY_STATE_FAILED, QUERY_STATE_CANCELLED} THEN "failed"
    ELSE "sleep"

\* one iteration of the loop of wait_for_completion: get_execution_status,
\* the branch on its result and, when process_query goes on, its check
WaitForCompletionPoll ==
    /\ pc = "wait_for_completion"
    /\ attempt <= WaitMaxAttempts
    /\ \E r \in StatusResponses :
        /\ response' = r
        /\ nTransient' = CountTransient(r)
        /\ nStatus' = nStatus + 1
        /\ IF RequestFailed(r)
           THEN /\ completion' = StatusError
                /\ pc' = "pq_return"
                /\ wait_time' = 0
                /\ UNCHANGED <<state, attempt, nPending>>
           ELSE /\ state' = r.state
                /\ CASE WaitBranch(r.state) = "completed" ->
                          /\ completion' = Completed
                          /\ pc' = "get_results"
                          /\ wait_time' = 0
                          /\ UNCHANGED <<attempt, nPending>>
                     [] WaitBranch(r.state) = "failed" ->
                          /\ completion' = ExecutionFailed(r.state)
                          /\ pc' = "pq_return"
                          /\ wait_time' = 0
                          /\ UNCHANGED <<attempt, nPending>>
                     [] OTHER ->
                          /\ wait_time' = WaitDelay
                          /\ attempt' = attempt + 1
                          /\ nPending' = CountPending(r.state)
                          /\ UNCHANGED <<completion, pc>>
    /\ UNCHANGED <<script, submitted, query_ids, qi, saved, csvVars,
                   execution_id, results, nSubmit, nResults>>

\* the loop of wait_for_completion has used its max_attempts
WaitForCompletionTimeout ==
    /\ pc = "wait_for_completion"
    /\ attempt > WaitMaxAttempts
    /\ completion' = TimedOut
    /\ pc' = "pq_return"
    /\ UNCHANGED <<script, submitted, query_ids, qi, saved, csvVars, jobVars,
                   netVars>>

\* save_results writes the file of the query
SaveResults(res) ==
    IF res.kind = "json" /\ Truthy(res.body) THEN saved \cup {qi} ELSE saved

\* get_results, and process_query saving what it returned
GetResults ==
    /\ pc = "get_results"
    /\ \E r \in ResultsResponses :
        /\ response' = r
        /\ nTransient' = CountTransient(r)
        /\ nResults' = nResults + 1
        /\ results' = IF RequestFailed(r) THEN ErrorResults
                      ELSE JsonResults(r.body)
        /\ saved' = IF RequestFailed(r) THEN saved ELSE SaveResults(results')
    /\ pc' = "pq_return"
    /\ wait_time' = 0
    /\ UNCHANGED <<script, submitted, query_ids, qi, completion, csvVars,
                   execution_id, attempt, state, nSubmit, nStatus, nPending>>

PullNext ==
    \/ MainNextQuery
    \/ MainDone
    \/ ProcessQueryReturn
    \/ ExecuteQuery
    \/ WaitForCompletionPoll
    \/ WaitForCompletionTimeout
    \/ GetResults

\* ------------------------------------------------------------------------
\* check_addresses.py
\* ------------------------------------------------------------------------
\* process_csv writes row['is_verified'] of the first row and the output file
WriteVerdict(v) ==
    [is_verified EXCEPT ![1] = Append(@, v)]

\* process_csv: the file is read; only its first row is looked at
ProcessCsvRead ==
    /\ pc = "process_csv"
    /\ IF rows = <<>>
       THEN /\ pc' = "done"
            /\ UNCHANGED address_hex
       ELSE /\ address_hex' = Strip(rows[1])
            /\ pc' = IF address_hex' = <<>> THEN "done" ELSE "csv_validate"
    /\ UNCHANGED <<script, submitted, pullVars, rows, has_results, results_url,
                   is_verified, jobVars, netVars>>

\* process_csv: address_hex without its 0x prefix (lines 283-284)
CsvHexPart(a) == IF StartsWith0x(a) THEN Drop2(a) ELSE a

\* process_csv: the outcome of the checks of lines 287-291
CsvValidation(a) ==
    IF ~AllHex(CsvHexPart(a)) THEN "return"
    ELSE IF Len(CsvHexPart(a)) # AddrHexLen THEN "ValueError"
    ELSE "valid"

\* process_csv: the address is validated before execute_dune_query is called
ProcessCsvValidate ==
    /\ pc = "csv_validate"
    /\ CASE CsvValidation(address_hex) = "return" ->
              /\ pc' = "done"
              /\ UNCHANGED is_verified
         [] CsvValidation(address_hex) = "ValueError" ->
              /\ is_verified' = WriteVerdict("error")
              /\ pc' = "done"
         [] OTHER ->
              /\ pc' = "edq_validate"
              /\ UNCHANGED is_verified
    /\ UNCHANGED <<script, submitted, pullVars, rows, address_hex, has_results,
                   results_url, jobVars, netVars>>

\* execute_dune_query: the address with its 0x prefix (lines 45-49)
EdqAddress(a) == IF StartsWith0x(a) THEN a ELSE Prefix0x \o a

\* execute_dune_query: the checks of lines 52-60 pass
EdqValid(a) ==
    /\ Len(EdqAddress(a)) = AddrFullLen
    /\ AllHex(Drop2(EdqAddress(a)))

\* execute_dune_query: the address checks, before any request
EdqValidate ==
    /\ pc = "edq_validate"
    /\ IF EdqValid(address_hex)
       THEN /\ pc' = "edq_submit"
            /\ UNCHANGED has_results
       ELSE /\ has_results' = "False"
            /\ pc' = "edq_return"
    /\ UNCHANGED <<script, submitted, pullVars, rows, address_hex, results_url,
                   is_verified, jobVars, netVars>>

\* execute_dune_query: the query is submitted (lines 137-156)
EdqSubmit ==
    /\ pc = "edq_submit"
    /\ \E r \in SubmitResponses :
        /\ response' = r
        /\ nTransient' = CountTransient(r)
        /\ nSubmit' = nSubmit + 1
        /\ IF \/ r.kind = "exception"
              \/ r.code # HttpOk
              \/ r.execution_id = None
              \/ r.state = QUERY_STATE_FAILED
           THEN /\ has_results' = "False"
                /\ pc' = "edq_return"
                /\ UNCHANGED <<execution_id, state, attempt>>
           ELSE /\ execution_id' = r.execution_id
                /\ state' = r.state
                /\ attempt' = 1
                /\ pc' = "edq_sleep"
                /\ UNCHANGED has_results
    /\ wait_time' = 0
    /\ UNCHANGED <<script, submitted, pullVars, rows, address_hex, results_url,
                   is_verified, results, nStatus, nResults, nPending>>

\* wait_time of line 161 without its cap
PollWaitTimeNoCap(n) == Pow2(n)

\* execute_dune_query: wait_time of line 161
PollWaitTime(n) == Min(Pow2(n), PollDelayCap)

\* execute_dune_query: the head of the poll loop sleeps (lines 160-163)
EdqSleep ==
    /\ pc = "edq_sleep"
    /\ attempt <= PollMaxAttempts
    /\ wait_time' = wait_time + PollWaitTime(attempt)
    /\ pc' = "edq_status"
    /\ UNCHANGED <<script, submitted, pullVars, csvVars, jobVars, response,
                   nSubmit, nStatus, nResults, nPending, nTransient>>

\* the if/elif of execute_dune_query on the state of a status response
PollBranch(s) ==
    IF s = QUERY_STATE_COMPLETED THEN "completed"
    ELSE IF s \in {QUERY_STATE_FAILED, QUERY_STATE_CANCELED} THEN "failed"
    ELSE "fall_through"

\* execute_dune_query: the status request of the loop (lines 165-214)
EdqStatus ==
    /\ pc = "edq_status"
    /\ \E r \in StatusResponses :
        /\ response' = r
        /\ nTransient' = CountTransient(r)
        /\ nStatus' = nStatus + 1
        /\ IF r.kind = "exception" \/ r.code # HttpOk
           THEN /\ has_results' = "False"
                /\ pc' = "edq_return"
                /\ UNCHANGED <<state, results_url, nPending>>
           ELSE /\ state' = r.state
                /\ CASE PollBranch(r.state) = "completed" ->
                          /\ results_url' = "bound"
                          /\ pc' = "edq_results"
                          /\ UNCHANGED <<has_results, nPending>>
                     [] PollBranch(r.state) = "failed" ->
                          /\ pc' = "edq_error_details"
                          /\ UNCHANGED <<has_results, results_url,
                                         nPending>>
                     [] OTHER ->
                          /\ pc' = "edq_fall_through"
                          /\ nPending' = CountPending(r.state)
                          /\ UNCHANGED <<has_results, results_url>>
    /\ wait_time' = 0
    /\ UNCHANGED <<script, submitted, pullVars, rows, address_hex, is_verified,
                   execution_id, attempt, results, nSubmit, nResults>>

\* bool(result_rows) of lines 190-191 and 223-224
\* has_results taken from the body being there, not from its rows
HasResultsOfBody(body) == IF Truthy(body) THEN "True" ELSE "False"

\* execute_dune_query: has_results of lines 190-191
HasResults(body) == IF Len(ResultRows(body)) > 0 THEN "True" ELSE "False"

\* execute_dune_query: the results of a completed execution (lines 185-197)
EdqResults ==
    /\ pc = "edq_results"
    /\ \E r \in ResultsResponses :
        /\ response' = r
        /\ nTransient' = CountTransient(r)
        /\ nResults' = nResults + 1
        /\ IF r.kind = "exception" \/ r.code # HttpOk
           THEN /\ has_results' = "False"
                /\ results' = ErrorResults
           ELSE /\ results' = JsonResults(r.body)
                /\ has_results' = HasResults(r.body)
    /\ pc' = "edq_return"
    /\ wait_time' = 0
    /\ UNCHANGED <<script, submitted, pullVars, rows, address_hex, results_url,
                   is_verified, execution_id, attempt, state, nSubmit,
                   nStatus, nPending>>

\* execute_dune_query: the details of a failed execution are requested from
\* the results endpoint and printed (lines 199-212)
EdqErrorDetails ==
    /\ pc = "edq_error_details"
    /\ \E r \in ResultsResponses :
        /\ response' = r
        /\ nTransient' = CountTransient(r)
        /\ nResults' = nResults + 1
    /\ has_results' = "False"
    /\ pc' = "edq_return"
    /\ wait_time' = 0
    /\ UNCHANGED <<script, submitted, pullVars, rows, address_hex, results_url,
                   is_verified, jobVars, nSubmit, nStatus, nPending>>

\* line 216 reads the local results_url: it is bound by line 185 alone
ResultsUrlBound == results_url = "bound"

\* execute_dune_query: the end of the loop body (lines 214-234); reading the
\* unbound local raises UnboundLocalError, which line 232 catches
EdqFallThrough ==
    /\ pc = "edq_fall_through"
    /\ IF ~ResultsUrlBound
       THEN /\ has_results' = "False"
            /\ UNCHANGED <<results, response, nResults, nTransient>>
       ELSE \E r \in ResultsResponses :
            /\ response' = r
            /\ nTransient' = CountTransient(r)
        /\ nTransient' = CountTransient(r)
            /\ nResults' = nResults + 1
            /\ IF r.kind = "exception" \/ RaisesForStatus(r)
               THEN /\ has_results' = "False"
                    /\ results' = ErrorResults
               ELSE /\ results' = JsonResults(r.body)
                    /\ has_results' = HasResults(r.body)
    /\ pc' = "edq_return"
    /\ UNCHANGED <<script, submitted, pullVars, rows, address_hex, results_url,
                   is_verified, execution_id, attempt, state, wait_time,
                   nSubmit, nStatus, nPending>>

\* 'yes' if has_results else 'no' (line 322)
Verdict(h) == IF h = "True" THEN "yes" ELSE "no"

\* process_csv: the verdict of the row is written (lines 314-328)
ProcessCsvVerdict ==
    /\ pc = "edq_return"
    /\ script = "check_addresses"
    /\ is_verified' = WriteVerdict(Verdict(has_results))
    /\ pc' = "done"
    /\ UNCHANGED <<script, submitted, pullVars, rows, address_hex, has_results,
                   results_url, jobVars, netVars>>

\* execute_dune_query returns to a caller other than process_csv
EdqReturn ==
    /\ pc = "edq_return"
    /\ script = "execute_dune_query"
    /\ pc' = "done"
    /\ UNCHANGED <<script, submitted, pullVars, csvVars, jobVars, netVars>>

CheckNext ==
    \/ ProcessCsvRead
    \/ ProcessCsvValidate
    \/ EdqValidate
    \/ EdqSubmit
    \/ EdqSleep
    \/ EdqStatus
    \/ EdqResults
    \/ EdqErrorDetails
    \/ EdqFallThrough
    \/ ProcessCsvVerdict
    \/ EdqReturn

Next == PullNext \/ CheckNext


Spec == Init /\ [][Next]_vars

\* ------------------------------------------------------------------------
\* Vocabulary of the properties
\* ------------------------------------------------------------------------
\* the run of the current item has returned to its caller
RunEnded == pc \in {"pq_return", "edq_return"}

\* the attempt budget of the poll loop that runs
MaxAttempts ==
    IF script = "pull_from_dune" THEN WaitMaxAttempts ELSE PollMaxAttempts

\* the poller returned because its budget was used up: wait_for_completion
\* returns its timeout error, execute_dune_query falls off its loop
ReturnedTimedOut ==
    IF script = "pull_from_dune" THEN completion = TimedOut
    ELSE pc \in {"edq_return", "done"} /\ nStatus > 0 /\ has_results = None

\* the run returned a failure to its caller
ReturnedFailure ==
    IF script = "pull_from_dune"
    THEN completion \notin {None, Completed}
    ELSE has_results = "False"

\* the last status response reported a failed or cancelled execution, or the
\* budget is used up
FailureSeen ==
    \/ state \in {QUERY_STATE_FAILED, QUERY_STATE_CANCELLED}
    \/ completion = TimedOut

nRequests == nSubmit + nStatus + nResults

\* C1 (as claimed): a run whose status responses are k times PENDING or
\* RUNNING and then COMPLETED, k+1 within the budget, does not end before
\* COMPLETED arrives, and ends after exactly k+1 status queries followed by
\* exactly one results request.
C1_PollsThenFetchesOnce ==
    /\ (RunEnded /\ nStatus >= 1 /\ nStatus = nPending)
           => nStatus >= MaxAttempts
    /\ (RunEnded /\ state = QUERY_STATE_COMPLETED /\ nStatus = nPending + 1)
           => nResults = 1

\* C2 (as claimed): a run all of whose status responses say PENDING or
\* RUNNING ends timed out after exactly max_attempts status queries and
\* without any results request.
C2_TimesOutAfterBudget ==
    (RunEnded /\ nStatus >= 1 /\ nStatus = nPending)
        => /\ ReturnedTimedOut
           /\ nStatus = MaxAttempts
           /\ nResults = 0

C4_VerdictOnlyAfterFetch ==
    \A i \in 1..Len(is_verified) :
        \A j \in 1..Len(is_verified[i]) :
            is_verified[i][j] \in {"yes", "no"}
                => /\ state = QUERY_STATE_COMPLETED
                   /\ results.kind = "json"

\* an address: 40 hexadecimal digits after an optional 0x prefix
IsAddress(a) ==
    \E prefix \in {NoPrefix, Prefix0x, Prefix0X} :
        /\ Len(a) = Len(prefix) + AddrHexLen
        /\ SubSeq(a, 1, Len(prefix)) = prefix
        /\ \A i \in (Len(prefix) + 1)..Len(a) : a[i] \in HexChars

\* C5 (as claimed): an address that fails validation causes no HTTP request
\* and resolves to the verdict 'error': process_csv writes 'error' for it, and
\* execute_dune_query does not answer it with the False of an address
\* without transfers.
C5_InvalidAddressIsError ==
    /\ (script = "check_addresses" /\ pc = "done" /\ rows # <<>>
            /\ ~IsAddress(Strip(rows[1])))
           => nRequests = 0 /\ is_verified[1] = <<"error">>
    /\ (script = "execute_dune_query" /\ pc = "done"
            /\ ~IsAddress(address_hex))
           => nRequests = 0 /\ has_results # "False"

\* C6 (as claimed): a fetched response without result.rows is a fetch error;
\* otherwise has_rows says whether there is at least one row.
C6_HasRows ==
    /\ (pc = "edq_return" /\ results.kind = "json")
           => /\ results.body.has_result /\ results.body.has_rows
              /\ has_results = "True" <=> Len(results.body.rows) >= 1
              /\ has_results = "False" <=> Len(results.body.rows) = 0
    /\ (pc = "pq_return" /\ results.kind = "json")
           => results.body.has_result /\ results.body.has_rows

\* C7 (as claimed): when process_csv has finished, every input row has had
\* exactly one verdict written for it.
C7_OneVerdictPerRow ==
    (script = "check_addresses" /\ pc = "done")
        => \A i \in 1..Len(rows) :
               /\ Len(is_verified[i]) = 1
               /\ is_verified[i][1] \in {"yes", "no", "error"}

\* the state of the Job of the current item, from what the poller has seen
JobState ==
    IF execution_id = None THEN "NONE"
    ELSE IF ReturnedTimedOut /\ nStatus > 0 THEN "TIMED_OUT"
    ELSE IF nStatus = 0 THEN "SUBMITTED"
    ELSE IF state = QUERY_STATE_COMPLETED THEN "COMPLETED"
    ELSE IF state = QUERY_STATE_FAILED THEN "FAILED"
    ELSE IF state = QUERY_STATE_CANCELLED THEN "CANCELLED"
    ELSE "RUNNING"

TerminalJobStates == {"COMPLETED", "FAILED", "CANCELLED", "TIMED_OUT"}

JobRank(j) ==
    CASE j = "NONE" -> 0
      [] j = "SUBMITTED" -> 1
      [] j = "RUNNING" -> 2
      [] OTHER -> 3

\* C8 (as claimed): within a run the Job never goes back to an earlier
\* state and never leaves a terminal state, and a run that obtained an
\* execution id ends with the Job in one of the four terminal states.
C8_JobLifecycle ==
    [][ /\ execution_id' = execution_id =>
              /\ JobRank(JobState') >= JobRank(JobState)
              /\ JobState \in TerminalJobStates => JobState' = JobState
        /\ (RunEnded /\ execution_id # None) => JobState \in TerminalJobStates
      ]_vars

\* C9 (as claimed): a request answered by HTTP 429 is issued again after a
\* wait of at least min(Retry-After, MAX_DELAY) and less than MAX_DELAY + 5s.
C9_RateLimitRetried ==
    [][ (nRequests' > nRequests /\ response'.code = 429)
            => /\ pc' = pc
               /\ wait_time' >= Min(response'.retry_after, MAX_DELAY)
               /\ wait_time' < MAX_DELAY + MAX_JITTER ]_vars

\* C10 (as claimed): pull_from_dune surfaces a transient failure of a
\* request only after max_retries transient failures in a row, and attempts
\* no request again after that.
C10_TransientRetried ==
    script = "pull_from_dune" =>
        /\ nTransient <= MAX_RETRIES
        /\ (pc = "pq_return" /\ Transient(response))
               => nTransient = MAX_RETRIES

\* the last request was a status query, and it failed at transport level
StatusQueryFailed ==
    /\ nStatus >= 1
    /\ nResults = 0
    /\ \/ response.kind = "exception"
       \/ response.kind = "http" /\ response.code # HttpOk

\* the poll loop is still running
Polling == pc \in {"wait_for_completion", "edq_sleep", "edq_status"}

\* C11: a status query that fails at transport level ends the poll loop at
\* once and is reported as a poll failure; no status query and no results
\* request follows it.
C11_StatusFailureEndsPolling ==
    [][ StatusQueryFailed =>
            /\ ~Polling
            /\ IF script = "pull_from_dune"
               THEN completion = StatusError
               ELSE has_results = "False"
            /\ nStatus' <= nStatus
            /\ nResults' <= nResults ]_vars

\* C11 witness: process_query has returned after its third status query
\* was answered by HTTP 500
C11_Witness ==
    /\ pc = "pq_return"
    /\ completion = StatusError
    /\ nStatus = 3
    /\ nResults = 0
    /\ response.code = 500

\* the submission did not give an execution id
SubmissionRejected(r) ==
    \/ r.kind = "exception"
    \/ r.code # HttpOk
    \/ r.execution_id = None

\* C12: when the submission request fails or its response carries no
\* execution id, the run ends at once without an execution id, and no status
\* query and no results request is issued for it.
C12_SubmissionErrorEndsRun ==
    [][ /\ (nSubmit' > nSubmit /\ SubmissionRejected(response'))
              => /\ RunEnded'
                 /\ execution_id' = None
                 /\ script # "pull_from_dune" => has_results' = "False"
        /\ execution_id = None => (nStatus' = 0 /\ nResults' = 0) ]_vars

\* C12 witness: process_query has returned after a 200 response without
\* execution_id
C12_Witness ==
    /\ pc = "pq_return"
    /\ nSubmit = 1
    /\ response.code = HttpOk
    /\ response.execution_id = None
    /\ nStatus = 0
    /\ nResults = 0

\* C13: at most one submission request is issued per input item.
C13_SubmitsOnce ==
    /\ nSubmit <= 1
    /\ \A i, j \in 1..Len(submitted) : submitted[i] = submitted[j] => i = j

\* C13 witness: the submission failed with a transient failure and the run
\* has returned without a second submission
C13_Witness ==
    /\ RunEnded
    /\ nSubmit = 1
    /\ nStatus = 0
    /\ Transient(response)

\* the terminal states a status response can report
TerminalStates ==
    {QUERY_STATE_COMPLETED, QUERY_STATE_FAILED, QUERY_STATE_CANCELLED}

\* the last status query was answered, by a state that is not terminal
NonTerminalSeen ==
    /\ nStatus >= 1
    /\ ~StatusQueryFailed
    /\ state \notin TerminalStates

\* C14 (as claimed): a status response whose state is PENDING, RUNNING or an
\* unrecognized string never ends the run while budget remains.
C14_NonTerminalKeepsPolling ==
    ~(RunEnded /\ NonTerminalSeen /\ nStatus < MaxAttempts)

\* the job state of a remote state string
SpecBranch(s) ==
    IF s = QUERY_STATE_COMPLETED THEN "completed"
    ELSE IF s \in {QUERY_STATE_FAILED, QUERY_STATE_CANCELLED} THEN "failed"
    ELSE "running"

\* the branch the poller has taken on the last status response
TakenBranch ==
    IF pc \in {"get_results", "edq_results"} THEN "completed"
    ELSE IF pc = "edq_error_details" THEN "failed"
    ELSE IF pc = "pq_return" /\ completion = ExecutionFailed(state)
    THEN "failed"
    ELSE IF pc \in {"wait_for_completion", "edq_fall_through"} THEN "running"
    ELSE "none"

\* C15 (as claimed): each of the five state strings of the status endpoint
\* makes every poller take the branch of the job state of that name;
\* QUERY_STATE_CANCELLED is terminal in both pollers.
C15_StatesRecognized ==
    [][ (nStatus' > nStatus /\ response'.kind = "http"
            /\ response'.code = HttpOk /\ response'.state \in SpecStates)
            => TakenBranch' = SpecBranch(response'.state) ]_vars

\* what the poller returns to its caller
ReturnValue ==
    IF script = "pull_from_dune" THEN completion ELSE has_results

\* the values returned for an execution reported FAILED or CANCELLED
FailureValues ==
    {ExecutionFailed(QUERY_STATE_FAILED), ExecutionFailed(QUERY_STATE_CANCELLED),
     "False"}

\* C16: a run that ends because the budget is used up and a run that ends
\* because the execution was reported FAILED or CANCELLED return different
\* values.
C16_TimeoutDistinctFromFailure ==
    /\ (RunEnded /\ nStatus >= 1 /\ ~StatusQueryFailed
            /\ state \in {QUERY_STATE_FAILED, QUERY_STATE_CANCELLED})
           => ReturnValue \in FailureValues
    /\ (RunEnded /\ NonTerminalSeen /\ nStatus = MaxAttempts)
           => ReturnValue \notin FailureValues

\* C16 witness: wait_for_completion has used its 30 attempts
C16_Witness ==
    /\ pc = "pq_return"
    /\ NonTerminalSeen
    /\ nStatus = WaitMaxAttempts
    /\ completion = TimedOut

\* C17 (as claimed): the delay before a status query is within [1s, 3s] or
\* follows an exponential schedule capped at 60s: it doubles from poll to
\* poll until it stays at the cap.
C17_DelayJitterOrExponential ==
    [][ /\ (pc = "wait_for_completion" /\ pc' = "wait_for_completion"
               /\ nStatus >= 1)
              => \/ wait_time' \in 1..3
                 \/ wait_time' = Min(2 * wait_time, PollDelayCap)
        /\ (pc = "edq_sleep" /\ pc' = "edq_status")
              => \/ wait_time' \in 1..3
                 \/ wait_time' = Min(Pow2(attempt), PollDelayCap) ]_vars

\* C17 (amended): the delay before a status query never decreases from poll
\* to poll and is never above 60s: wait_for_completion sleeps its fixed
\* delay of 5s, execute_dune_query sleeps min(2^attempt, 60).
C17_DelayNonDecreasingCapped ==
    /\ (pc = "wait_for_completion" /\ nStatus >= 1)
           => wait_time = WaitDelay /\ wait_time <= PollDelayCap
    /\ pc = "edq_status"
           => wait_time = PollWaitTime(attempt) /\ wait_time <= PollDelayCap
    /\ \A n \in 1..PollMaxAttempts :
           /\ PollWaitTime(n) <= PollDelayCap
           /\ PollWaitTime(n) \in {Pow2(n), PollDelayCap}
           /\ n > 1 => PollWaitTime(n) >= PollWaitTime(n - 1)

\* C17 witness: wait_for_completion is about to send its third status query
\* after its second sleep of 5s
C17_Witness ==
    /\ pc = "wait_for_completion"
    /\ nStatus = 2
    /\ attempt = 3
    /\ wait_time = WaitDelay

\* C18: main hands the query ids to process_query one at a time in the order
\* of the list: each position is submitted exactly once, the next one only
\* after the run before it has returned, and the list is gone through to its
\* end however the earlier runs ended.
C18_SequentialInOrder ==
    script = "pull_from_dune" =>
        /\ submitted = [i \in 1..Len(submitted) |-> i]
        /\ Len(submitted) =
               IF pc \in {"main", "execute_query", "done"} THEN qi - 1 ELSE qi
        /\ pc = "done" => Len(submitted) = Len(query_ids)
        /\ nSubmit <= 1

\* C18 witness: the run of the first query saved nothing, and the second
\* query was submitted after it and saved
C18_Witness ==
    /\ script = "pull_from_dune"
    /\ pc = "done"
    /\ submitted = <<1, 2>>
    /\ saved = {2}

\* C19: the results of the query of the current run are saved only if its
\* submission returned an execution id, its poll ended in COMPLETED and the
\* results request succeeded; no run that ended otherwise has saved.
C19_SavedOnlyAfterSuccess ==
    /\ \A q \in saved : q \in 1..Len(query_ids) /\ q <= qi
    /\ qi \in saved =>
           /\ pc = "pq_return"
           /\ nSubmit = 1
           /\ execution_id # None
           /\ completion = Completed
           /\ state = QUERY_STATE_COMPLETED
           /\ nResults = 1
           /\ response.kind = "http"
           /\ response.code < HttpErrorFloor
           /\ results = JsonResults(response.body)
    /\ (script = "pull_from_dune" /\ RunEnded /\ RunOutcome # "fetched")
           => qi \notin saved

\* C19 witness: process_query has saved the results of a completed execution
C19_Witness ==
    /\ pc = "pq_return"
    /\ qi \in saved
    /\ RunOutcome = "fetched"

\* C20: the verdict 'yes' is written for an address only if the submission
\* returned 200 with an execution id, a status query returned
\* QUERY_STATE_COMPLETED and the results request returned 200 with at least
\* one row.
C20_YesOnlyWithRows ==
    \A i \in 1..Len(is_verified) :
        \A j \in 1..Len(is_verified[i]) :
            is_verified[i][j] = "yes"
                => /\ nSubmit = 1
                   /\ execution_id # None
                   /\ nStatus >= 1
                   /\ state = QUERY_STATE_COMPLETED
                   /\ nResults = 1
                   /\ response.kind = "http"
                   /\ response.code = HttpOk
                   /\ Len(ResultRows(response.body)) >= 1
                   /\ has_results = "True"

\* C20 witness: process_csv has written 'yes' for its address
C20_Witness ==
    /\ script = "check_addresses"
    /\ pc = "done"
    /\ Len(is_verified) >= 1
    /\ is_verified[1] = <<"yes">>

====
